---- MODULE Spec2Model ----
(***************************************************************************)
(* Model of the codechat-ai backend: the query analyzer and the adaptive   *)
(* retrieval of backend/embed_store_v2.py and the session handling of the  *)
(* FastAPI handlers of backend/main.py.                                    *)
(*                                                                         *)
(* Text is modelled as a sequence of one-character strings, so that        *)
(* lower-casing, substring tests, whitespace splitting and the regular     *)
(* expressions of the analyzer are computed character by character.        *)
(***************************************************************************)
EXTENDS Integers, Sequences, FiniteSets, TLC

(***************************************************************************)
(* Bounds of the model                                                     *)
(***************************************************************************)
\* longest query, in words of Vocabulary, the analyzer is applied to
MaxWords == 3

(***************************************************************************)
(* Characters                                                              *)
(***************************************************************************)
UpperLetters ==
    <<"A","B","C","D","E","F","G","H","I","J","K","L","M","N","O","P","Q","R","S","T","U","V","W","X","Y","Z">>
LowerLetters ==
    <<"a","b","c","d","e","f","g","h","i","j","k","l","m","n","o","p","q","r","s","t","u","v","w","x","y","z">>
DigitChars ==
    {"0","1","2","3","4","5","6","7","8","9"}
UpperSet ==
    {UpperLetters[i] : i \in 1..26}
LowerSet ==
    {LowerLetters[i] : i \in 1..26}

IsUpper(c) ==
    c \in UpperSet
IsLower(c) ==
    c \in LowerSet
IsLetter(c) ==
    IsUpper(c) \/ IsLower(c)
\* the regular-expression class \w
IsWordChar(c) ==
    IsLetter(c) \/ c \in DigitChars \/ c = "_"
\* the regular-expression class [\w\.]
IsWordOrDot(c) ==
    IsWordChar(c) \/ c = "."
\* the characters str.split() splits on
IsSpace(c) ==
    c \in {" ", "\t", "\n"}

\* str.lower(), one character
lower_char(c) ==
    IF IsUpper(c)
    THEN LowerLetters[CHOOSE i \in 1..26 : UpperLetters[i] = c]
    ELSE c
\* str.lower()
lower(s) ==
    [i \in 1..Len(s) |-> lower_char(s[i])]

\* Python's "k in q" on strings
Contains(q, k) ==
    \E i \in 1..(Len(q) - Len(k) + 1) : SubSeq(q, i, i + Len(k) - 1) = k

\* last index of the longest run of characters of the class that starts at i
\* (i - 1 when s[i] is not of the class): a greedy P*
InClass(class, c) ==
    CASE class = "lower"     -> IsLower(c)
      [] class = "letter"    -> IsLetter(c)
      [] class = "word"      -> IsWordChar(c)
      [] class = "word_dot"  -> IsWordOrDot(c)
      [] class = "not_space" -> ~IsSpace(c)
RunEnd(class, s, i) ==
    LET ends == {j \in (i - 1)..Len(s) : \A k \in i..j : InClass(class, s[k])}
    IN  CHOOSE j \in ends : \A k \in ends : k <= j

(***************************************************************************)
(* QueryAnalyzer                                                           *)
(***************************************************************************)
\* QueryAnalyzer.__init__: self.summary_keywords
summary_keywords ==
    << <<"s","u","m","m","a","r","y">>,
       <<"s","u","m","m","a","r","i","z","e">>,
       <<"o","v","e","r","v","i","e","w">>,
       <<"e","x","p","l","a","i","n">>,
       <<"d","e","s","c","r","i","b","e">>,
       <<"w","h","a","t"," ","i","s">>,
       <<"t","e","l","l"," ","m","e"," ","a","b","o","u","t">> >>
\* self.analysis_keywords
analysis_keywords ==
    << <<"a","n","a","l","y","z","e">>,
       <<"a","n","a","l","y","s","i","s">>,
       <<"a","r","c","h","i","t","e","c","t","u","r","e">>,
       <<"p","a","t","t","e","r","n">>,
       <<"s","t","r","u","c","t","u","r","e">>,
       <<"d","e","s","i","g","n">>,
       <<"f","l","o","w">> >>
\* self.bug_keywords
bug_keywords ==
    << <<"b","u","g">>,
       <<"e","r","r","o","r">>,
       <<"i","s","s","u","e">>,
       <<"p","r","o","b","l","e","m">>,
       <<"f","i","x">>,
       <<"d","e","b","u","g">>,
       <<"v","u","l","n","e","r","a","b","i","l","i","t","y">>,
       <<"s","e","c","u","r","i","t","y">>,
       <<"i","m","p","r","o","v","e","m","e","n","t","s">> >>
\* self.specific_keywords
specific_keywords ==
    << <<"f","u","n","c","t","i","o","n">>,
       <<"m","e","t","h","o","d">>,
       <<"c","l","a","s","s">>,
       <<"v","a","r","i","a","b","l","e">>,
       <<"i","m","p","o","r","t">>,
       <<"s","p","e","c","i","f","i","c">>,
       <<"f","i","n","d">> >>
\* the interrogatives of _assess_complexity
question_word_list ==
    << <<"w","h","a","t">>,
       <<"h","o","w">>,
       <<"w","h","y">>,
       <<"w","h","e","n">>,
       <<"w","h","e","r","e">>,
       <<"w","h","i","c","h">> >>

\* any(keyword in query for keyword in keywords)
any_keyword(q, keywords) ==
    \E j \in 1..Len(keywords) : Contains(q, keywords[j])

\* _classify_intent with the analysis list tested before the summary list
classify_intent_analysis_first(q) ==
    IF any_keyword(q, analysis_keywords) THEN "analysis"
    ELSE IF any_keyword(q, summary_keywords) THEN "summary"
    ELSE IF any_keyword(q, bug_keywords) THEN "bug_check"
    ELSE IF any_keyword(q, specific_keywords) THEN "specific"
    ELSE "general"

\* _classify_intent with the code-identifier list tested before the bug list
classify_intent_specific_first(q) ==
    IF any_keyword(q, summary_keywords) THEN "summary"
    ELSE IF any_keyword(q, analysis_keywords) THEN "analysis"
    ELSE IF any_keyword(q, specific_keywords) THEN "specific"
    ELSE IF any_keyword(q, bug_keywords) THEN "bug_check"
    ELSE "general"

\* _classify_intent
classify_intent(q) ==
    IF any_keyword(q, summary_keywords) THEN "summary"
    ELSE IF any_keyword(q, analysis_keywords) THEN "analysis"
    ELSE IF any_keyword(q, bug_keywords) THEN "bug_check"
    ELSE IF any_keyword(q, specific_keywords) THEN "specific"
    ELSE "general"

\* positions at which a word of q.split() starts
WordStarts(q) ==
    {i \in 1..Len(q) : ~IsSpace(q[i]) /\ (i = 1 \/ IsSpace(q[i - 1]))}
\* the word of q.split() that starts at i
WordAt(q, i) ==
    SubSeq(q, i, RunEnd("not_space", q, i))
question_words_set ==
    {question_word_list[i] : i \in 1..Len(question_word_list)}

\* the thresholds of _assess_complexity with >= in place of >
complexity_level_inclusive(word_count, question_words) ==
    IF word_count >= 15 \/ question_words >= 2 THEN "high"
    ELSE IF word_count >= 8 \/ question_words >= 1 THEN "medium"
    ELSE "low"

\* the thresholds of _assess_complexity
complexity_level(word_count, question_words) ==
    IF word_count > 15 \/ question_words > 2 THEN "high"
    ELSE IF word_count > 8 \/ question_words > 1 THEN "medium"
    ELSE "low"

\* _assess_complexity
assess_complexity(q) ==
    LET word_count == Cardinality(WordStarts(q))
        question_words ==
            Cardinality({i \in WordStarts(q) : WordAt(q, i) \in question_words_set})
    IN  complexity_level(word_count, question_words)

\* \b[A-Z][a-z]*[A-Z][a-zA-Z]*\b tried at position i: the last index of the
\* match, 0 when there is none
CamelMatchEnd(s, i) ==
    IF ~(IsUpper(s[i]) /\ (i = 1 \/ ~IsWordChar(s[i - 1]))) THEN 0
    ELSE LET a == RunEnd("lower", s, i + 1)
         IN  IF ~(a + 1 <= Len(s) /\ IsUpper(s[a + 1])) THEN 0
             ELSE LET b == RunEnd("letter", s, a + 2)
                  IN  IF b = Len(s) \/ ~IsWordChar(s[b + 1]) THEN b ELSE 0

\* \b\w+\(\) tried at position i
CallMatchEnd(s, i) ==
    IF ~(IsWordChar(s[i]) /\ (i = 1 \/ ~IsWordChar(s[i - 1]))) THEN 0
    ELSE LET w == RunEnd("word", s, i)
         IN  IF w + 2 <= Len(s) /\ s[w + 1] = "(" /\ s[w + 2] = ")"
             THEN w + 2 ELSE 0

\* [\w\.]+\.\w+ tried at position i: the greedy [\w\.]+ gives characters
\* back until a dot followed by a word character is left
DottedMatchEnd(s, i) ==
    LET r == RunEnd("word_dot", s, i)
        dots == {d \in (i + 1)..r :
                    s[d] = "." /\ d + 1 <= Len(s) /\ IsWordChar(s[d + 1])}
    IN  IF dots = {} THEN 0
        ELSE LET d == CHOOSE x \in dots : \A y \in dots : y <= x
             IN  RunEnd("word", s, d + 1)

\* \w+\[\] tried at position i
IndexMatchEnd(s, i) ==
    IF ~IsWordChar(s[i]) THEN 0
    ELSE LET w == RunEnd("word", s, i)
         IN  IF w + 2 <= Len(s) /\ s[w + 1] = "[" /\ s[w + 2] = "]"
             THEN w + 2 ELSE 0

\* \b\w+\(\)|[\w\.]+\.\w+|\w+\[\] tried at position i: the first
\* alternative that matches
CodeMatchEnd(s, i) ==
    IF CallMatchEnd(s, i) > 0 THEN CallMatchEnd(s, i)
    ELSE IF DottedMatchEnd(s, i) > 0 THEN DottedMatchEnd(s, i)
    ELSE IndexMatchEnd(s, i)

\* len(re.findall(camel, s)): the non-overlapping matches from position i on
RECURSIVE CamelFindAll(_, _)
CamelFindAll(s, i) ==
    IF i > Len(s) THEN 0
    ELSE LET e == CamelMatchEnd(s, i)
         IN  IF e > 0 THEN 1 + CamelFindAll(s, e + 1)
             ELSE CamelFindAll(s, i + 1)

\* len(re.findall(code shapes, s))
RECURSIVE CodeFindAll(_, _)
CodeFindAll(s, i) ==
    IF i > Len(s) THEN 0
    ELSE LET e == CodeMatchEnd(s, i)
         IN  IF e > 0 THEN 1 + CodeFindAll(s, e + 1)
             ELSE CodeFindAll(s, i + 1)

\* the thresholds of _assess_specificity
specificity_level(specific_terms, code_patterns) ==
    IF specific_terms > 2 \/ code_patterns > 1 THEN "high"
    ELSE IF specific_terms > 0 \/ code_patterns > 0 THEN "medium"
    ELSE "low"

\* _assess_specificity
assess_specificity(q) ==
    specificity_level(CamelFindAll(q, 1), CodeFindAll(q, 1))

\* the table of _calculate_base_k
base_values ==
    [specific  |-> [low |-> 3,  medium |-> 5,  high |-> 8],
     general   |-> [low |-> 5,  medium |-> 8,  high |-> 12],
     summary   |-> [low |-> 8,  medium |-> 15, high |-> 25],
     analysis  |-> [low |-> 10, medium |-> 18, high |-> 30],
     bug_check |-> [low |-> 12, medium |-> 20, high |-> 35]]

\* _calculate_base_k with half of every cell of the table
calculate_base_k_halved(intent, complexity) ==
    IF intent \in DOMAIN base_values
    THEN base_values[intent][complexity] \div 2
    ELSE [low |-> 5, medium |-> 8, high |-> 12][complexity] \div 2

\* _calculate_base_k: base_values.get(intent, <the general row>)[complexity]
calculate_base_k(intent, complexity) ==
    IF intent \in DOMAIN base_values
    THEN base_values[intent][complexity]
    ELSE [low |-> 5, medium |-> 8, high |-> 12][complexity]

max(a, b) ==
    IF a >= b THEN a ELSE b

\* should_rerank for every intent but general
should_rerank_unless_general(intent) ==
    intent \in {"summary", "analysis", "bug_check", "specific"}

\* analyze_query: should_rerank = intent in ['summary', 'analysis', 'bug_check']
should_rerank(intent) ==
    intent \in {"summary", "analysis", "bug_check"}

\* rerank_top_n as a quarter of base_k, without the floor of 3
rerank_top_n_quarter(rerank, base_k) ==
    IF rerank THEN base_k \div 4 ELSE base_k

\* rerank_top_n as half of base_k rounded up
rerank_top_n_rounded_up(rerank, base_k) ==
    IF rerank THEN max(3, (base_k + 1) \div 2) ELSE base_k

\* analyze_query: max(3, base_k // 2) if should_rerank else base_k
rerank_top_n(rerank, base_k) ==
    IF rerank THEN max(3, base_k \div 2) ELSE base_k

\* analyze_query: the three assessments all receive the lower-cased query
analyze_query(q) ==
    LET query_lower == lower(q)
        intent == classify_intent(query_lower)
        complexity == assess_complexity(query_lower)
        specificity == assess_specificity(query_lower)
        base_k == calculate_base_k(intent, complexity)
        rerank == should_rerank(intent)
    IN  [intent |-> intent,
         complexity |-> complexity,
         specificity |-> specificity,
         base_k |-> base_k,
         should_rerank |-> rerank,
         rerank_top_n |-> rerank_top_n(rerank, base_k)]

(***************************************************************************)
(* The queries of the model                                                *)
(***************************************************************************)
\* the words the model's queries are built from: keywords of each list,
\* an interrogative, a CamelCase token and the three code shapes
Vocabulary ==
    << <<"e","x","p","l","a","i","n">>,
       <<"a","r","c","h","i","t","e","c","t","u","r","e">>,
       <<"B","u","g">>,
       <<"f","i","n","d">>,
       <<"w","h","a","t">>,
       <<"i","s">>,
       <<"F","o","o","B","a","r">>,
       <<"g","e","t","U","s","e","r","(",")">>,
       <<"o","s",".","p","a","t","h">>,
       <<"i","t","e","m","s","[","]">> >>
\* the query of the end-to-end scenario
ScenarioQuery ==
    <<"e","x","p","l","a","i","n"," ","t","h","e"," ","a","r","c","h","i","t","e","c","t","u","r","e"," ","o","f"," ","t","h","i","s"," ","p","r","o","j","e","c","t">>

\* the words of ws joined by single spaces
RECURSIVE Join(_)
Join(ws) ==
    IF Len(ws) = 0 THEN << >>
    ELSE IF Len(ws) = 1 THEN Vocabulary[ws[1]]
    ELSE Vocabulary[ws[1]] \o <<" ">> \o Join(Tail(ws))

WordLists ==
    UNION {[1..n -> 1..Len(Vocabulary)] : n \in 0..MaxWords}

\* n times the word Vocabulary[w]
Repeated(w, n) ==
    [i \in 1..n |-> w]

\* queries around the thresholds of _assess_complexity: 8, 9, 15 and 16
\* words without an interrogative; a word of each intent followed by three
\* interrogatives; 20 words with three interrogatives among them
ThresholdQueries ==
    {Join(Repeated(6, n)) : n \in {8, 9, 15, 16}} \cup
    {Join(<<w>> \o Repeated(5, 3)) : w \in {1, 2, 3, 4, 6}} \cup
    {Join(Repeated(6, 17) \o Repeated(5, 3))}

\* every query of at most MaxWords words, the queries around the
\* thresholds, and the scenario query
Queries ==
    {Join(ws) : ws \in WordLists} \cup ThresholdQueries \cup {ScenarioQuery}


(***************************************************************************)
(* EnhancedPineconeManager.smart_retrieve                                  *)
(***************************************************************************)
\* no "rerank" entry in the search parameters
NoRerank ==
    [model |-> "none", top_n |-> 0]

\* search_params with a rerank request whatever should_rerank is
build_search_params_always_rerank(q, namespace, an) ==
    [namespace |-> namespace,
     text |-> q,
     top_k |-> an.base_k,
     rerank |-> [model |-> "bge-reranker-v2-m3", top_n |-> an.rerank_top_n]]

\* search_params as smart_retrieve builds them from the analysis
build_search_params(q, namespace, an) ==
    [namespace |-> namespace,
     text |-> q,
     top_k |-> an.base_k,
     rerank |-> IF an.should_rerank
                THEN [model |-> "bge-reranker-v2-m3", top_n |-> an.rerank_top_n]
                ELSE NoRerank]

\* the number of hits the search may answer with: top_n of the rerank
\* request when there is one, top_k otherwise
HitLimit(params) ==
    IF params.rerank = NoRerank THEN params.top_k ELSE params.rerank.top_n

\* one entry of processed_results; a chunk text is modelled by its length
processed_result(hit, an) ==
    [text_len |-> hit.text_len,
     file_name |-> hit.file_name,
     file_path |-> hit.file_path,
     language |-> hit.language,
     reranked |-> an.should_rerank]

\* estimated_tokens = len(chunk_text) // 4
estimated_tokens(hit) ==
    hit.text_len \div 4

\* the loop over results['result']['hits'] from hit i on, total_tokens being
\* the cost accepted so far: it breaks at the first hit that does not fit
RECURSIVE token_loop(_, _, _, _, _)
token_loop(hits, i, total_tokens, max_tokens, an) ==
    IF i > Len(hits) THEN << >>
    ELSE IF total_tokens + estimated_tokens(hits[i]) > max_tokens THEN << >>
    ELSE <<processed_result(hits[i], an)>>
         \o token_loop(hits, i + 1, total_tokens + estimated_tokens(hits[i]),
                       max_tokens, an)

\* the loop accepting its first hit whatever it costs
RECURSIVE token_loop_first_free(_, _, _, _, _)
token_loop_first_free(hits, i, total_tokens, max_tokens, an) ==
    IF i > Len(hits) THEN << >>
    ELSE IF i > 1 /\ total_tokens + estimated_tokens(hits[i]) > max_tokens THEN << >>
    ELSE <<processed_result(hits[i], an)>>
         \o token_loop_first_free(hits, i + 1,
                                  total_tokens + estimated_tokens(hits[i]),
                                  max_tokens, an)

process_results_at_least_one(hits, max_tokens, an) ==
    token_loop_first_free(hits, 1, 0, max_tokens, an)

\* the loop going on to the next hit (continue) where the code breaks
RECURSIVE token_loop_continue(_, _, _, _, _)
token_loop_continue(hits, i, total_tokens, max_tokens, an) ==
    IF i > Len(hits) THEN << >>
    ELSE IF total_tokens + estimated_tokens(hits[i]) > max_tokens
    THEN token_loop_continue(hits, i + 1, total_tokens, max_tokens, an)
    ELSE <<processed_result(hits[i], an)>>
         \o token_loop_continue(hits, i + 1,
                                total_tokens + estimated_tokens(hits[i]),
                                max_tokens, an)

process_results_skipping(hits, max_tokens, an) ==
    token_loop_continue(hits, 1, 0, max_tokens, an)

\* processed_results for the hits of one search
process_results(hits, max_tokens, an) ==
    token_loop(hits, 1, 0, max_tokens, an)

\* where the try block of smart_retrieve raises for an outcome of
\* index.search: in the search itself, or in the loop at the hit whose
\* fields cannot be read, which the loop reaches when it has accepted every
\* hit before it
failure_of(outcome, max_tokens, an) ==
    LET k == outcome.fails_at
    IN  IF outcome.raises THEN "search"
        ELSE IF /\ k \in 1..Len(outcome.hits)
                /\ Len(process_results(SubSeq(outcome.hits, 1, k - 1),
                                       max_tokens, an)) = k - 1
        THEN "hits"
        ELSE "none"

\* smart_retrieve returning what the loop has accepted when a hit raises
retrieve_with_partial(an, q, namespace, max_tokens, outcome) ==
    LET failure == failure_of(outcome, max_tokens, an)
    IN  [called |-> TRUE,
         analysis |-> an,
         params |-> build_search_params(q, namespace, an),
         failure |-> failure,
         result |-> IF failure = "search" THEN << >>
                    ELSE IF failure = "hits"
                    THEN process_results(
                             SubSeq(outcome.hits, 1, outcome.fails_at - 1),
                             max_tokens, an)
                    ELSE process_results(outcome.hits, max_tokens, an)]

\* smart_retrieve after its call of analyze_query, an being the analysis:
\* outcome is what index.search does, it raises or answers with ranked hits,
\* one of which may raise when the loop reads it; the except clause returns
\* the empty list; the result records the analysis, the search request and
\* the failure next to the returned list
retrieve_with(an, q, namespace, max_tokens, outcome) ==
    LET failure == failure_of(outcome, max_tokens, an)
    IN  [called |-> TRUE,
         analysis |-> an,
         params |-> build_search_params(q, namespace, an),
         failure |-> failure,
         result |-> IF failure # "none" THEN << >>
                    ELSE IF outcome.hits = << >> THEN << >>
                    ELSE process_results(outcome.hits, max_tokens, an)]

\* smart_retrieve
smart_retrieve(q, namespace, max_tokens, outcome) ==
    retrieve_with(analyze_query(q), q, namespace, max_tokens, outcome)

NotRetrieved ==
    [called |-> FALSE]

(***************************************************************************)
(* The inputs of smart_retrieve in the model                               *)
(***************************************************************************)
\* most hits one search answers with
MaxHits == 3
\* lengths of chunk texts: estimated costs 0, 100 and 250 tokens
TextLens ==
    {3, 400, 1000}
\* token budgets: nothing, less than one chunk, two chunks and a half, the
\* default of the handlers
Budgets ==
    {0, 99, 250, 8000}
HitFiles ==
    {"app.py", "util.js"}
language_of ==
    [f \in {"app.py", "util.js", "logo.png"} |->
        IF f = "app.py" THEN "python"
        ELSE IF f = "util.js" THEN "javascript" ELSE "code"]
\* the hits of the model: chunks of app.py of every length, a chunk of
\* util.js, and a chunk of app.py whose record has no language field, which
\* smart_retrieve reads as 'unknown'
Hits ==
    {[text_len |-> n, file_name |-> f, file_path |-> f, language |-> language_of[f]] :
        n \in TextLens, f \in {"app.py"}} \cup
    {[text_len |-> 400, file_name |-> f, file_path |-> f, language |-> language_of[f]] :
        f \in HitFiles} \cup
    {[text_len |-> 400, file_name |-> "app.py", file_path |-> "app.py",
      language |-> "unknown"]}
HitLists ==
    UNION {[1..n -> Hits] : n \in 0..MaxHits}
\* the search raises, or answers with a list of hits; fails_at is the
\* position of a hit whose fields cannot be read, 0 when there is none;
\* here it is the last hit of the answer
SearchOutcomes ==
    {[raises |-> TRUE, hits |-> << >>, fails_at |-> 0]} \cup
    UNION {{[raises |-> FALSE, hits |-> h, fails_at |-> k] : k \in {0, Len(h)}} :
              h \in HitLists}
\* a summary query (reranked), a specific one (not reranked), the empty one
RetrieveQueries ==
    {<<"e","x","p","l","a","i","n"," ","o","s",".","p","a","t","h">>, <<"f","i","n","d"," ","F","o","o","B","a","r">>, << >>}


(***************************************************************************)
(* The files, uploads and requests of the model                            *)
(***************************************************************************)
\* most namespaces generate_new_session creates in one run
MaxNamespaces == 2
\* most working directories mkdtemp creates in one run
MaxDirs == 2
\* most files of one upload-file request
MaxUploadFiles == 2
\* most upload-file requests suspended at an await at the same time
MaxInFlight == 1
\* most requests served by worker threads at the same time
MaxThreads == 1

\* a code file, and a file of an extension outside SUPPORTED_EXTENSIONS
FileNames ==
    {"app.py", "logo.png"}
file_chars ==
    [f \in FileNames |-> IF f = "app.py" THEN <<"a","p","p",".","p","y">> ELSE <<"l","o","g","o",".","p","n","g">>]
\* the lengths of the chunk texts chunk_documents splits a file into
chunk_texts ==
    [f \in FileNames |-> IF f = "app.py" THEN <<400>> ELSE << >>]
\* ext.lower() in SUPPORTED_EXTENSIONS
supported ==
    {"app.py"}

UploadInputs ==
    UNION {[1..n -> FileNames] : n \in 1..MaxUploadFiles}
\* the empty message, a whitespace-only one and a query
ChatMessages ==
    {<< >>, <<" ", " ">>, <<"f","i","n","d"," ","F","o","o","B","a","r">>}
\* a budget below the cost of one chunk, and the default
ChatBudgets ==
    {99, 8000}

\* current_session["path"] is None
NoPath == 0

\* generate_new_session carrying the path and count of a first ingest over
generate_new_session_bound(namespace) ==
    [namespace |-> namespace, path |-> 1, files_processed |-> 1]

\* generate_new_session, given the fresh uuid4
generate_new_session(namespace) ==
    [namespace |-> namespace, path |-> NoPath, files_processed |-> 0]

\* a directory that exists and holds files
directory(files) ==
    [exists |-> TRUE, files |-> files]
\* the directory after shutil.rmtree
removed_directory ==
    [exists |-> FALSE, files |-> {}]

\* os.path.exists(path)
path_exists(dk, path) ==
    path \in 1..Len(dk) /\ dk[path].exists

\* load_code_files: the documents are the supported files under the folder;
\* os.walk yields nothing for a folder that does not exist
load_code_files(dk, folder) ==
    IF path_exists(dk, folder)
    THEN {f \in dk[folder].files : f \in supported}
    ELSE {}

\* the records upsert_documents builds for the chunks of one file
upsert_records(f) ==
    {[text_len |-> chunk_texts[f][i], file_name |-> f, file_path |-> f,
      language |-> language_of[f]] : i \in 1..Len(chunk_texts[f])}

\* the records batch_upsert_documents builds: no file_path field, which
\* smart_retrieve reads as 'unknown'
batch_records(f) ==
    {[text_len |-> chunk_texts[f][i], file_name |-> f, file_path |-> "unknown",
      language |-> language_of[f]] : i \in 1..Len(chunk_texts[f])}

\* what index.search may do for a request: raise, or answer with ranked
\* records of the namespace, each at most once and at most as many as the
\* request asks for, one of which may raise when it is read
search_outcomes(records, params) ==
    LET most == IF HitLimit(params) < MaxHits THEN HitLimit(params) ELSE MaxHits
        ranked(n) == {h \in [1..n -> records] :
                         \A i, j \in 1..n : h[i] = h[j] => i = j}
    IN  {[raises |-> TRUE, hits |-> << >>, fails_at |-> 0]} \cup
        UNION {{[raises |-> FALSE, hits |-> h, fails_at |-> k] : k \in 0..Len(h)} :
                  h \in UNION {ranked(n) : n \in 0..most}}

\* index.upsert_records(namespace, records) with every record stored in the
\* first namespace of the index
index_upsert_first_namespace(idx, namespace, records) ==
    [idx EXCEPT ![1] = @ \cup records]

\* index.upsert_records(namespace, records)
index_upsert(idx, namespace, records) ==
    [idx EXCEPT ![namespace] = @ \cup records]

\* is_ready of the session record
is_ready(session, dk) ==
    /\ session.path # NoPath
    /\ path_exists(dk, session.path)
    /\ session.files_processed > 0

\* what a reader saw of the session: the fields as it read them, the
\* namespace of the session each of path and files_processed was read from,
\* and the ingest (its directory) whose write the files_processed value was
NoObservation ==
    [path |-> NoPath, path_in |-> 0, namespace |-> 0,
     files_processed |-> 0, count_in |-> 0, count_from |-> NoPath]

\* the response of a request and what its handler did to produce it;
\* failure is where smart_retrieve raised, "none" when it did not, and
\* llm_failed whether a call of ask_llm raised
Response(op, http, success, kind) ==
    [op |-> op, http |-> http, success |-> success, kind |-> kind,
     message |-> << >>, calls |-> {}, llm_calls |-> 0,
     chunks_found |-> 0, files_involved |-> 0, failure |-> "none",
     llm_failed |-> FALSE,
     before |-> generate_new_session(0),
     observed |-> NoObservation]

NoResponse ==
    Response("none", 0, FALSE, "none")

NoGithub ==
    [active |-> FALSE, folder |-> NoPath, documents |-> {},
     before |-> generate_new_session(0)]

IdleReader ==
    [pc |-> "idle", path |-> NoPath, path_in |-> 0, exists |-> FALSE,
     has_data |-> FALSE, namespace |-> 0]

NoAnalysis ==
    [intent |-> "none"]

(***************************************************************************)
(* State                                                                   *)
(***************************************************************************)
VARIABLES
    query,           \* the text handed to analyze_query or smart_retrieve
    analysis,        \* the QueryAnalysis computed for it, NoAnalysis before
    search_outcome,  \* what index.search does for the request
    max_tokens,      \* the token budget handed to smart_retrieve
    retrieval,       \* what smart_retrieve did and returned
    current_session, \* the global session record of main.py
    disk,            \* the working directories under DATA_DIR, in creation order
    index,           \* the records of the vector index, by namespace
    uploads,         \* the upload-file requests suspended at "await file.read()"
    github,          \* the upload-github request between its two session writes
    session_info,    \* the session-info request running in a worker thread
    file_tree_req,   \* the file-tree request running in a worker thread
    count_from,      \* the ingest (its directory) that wrote files_processed
    response         \* the response sent by the step just taken, NoResponse if none

analyzerVars == <<query, analysis, search_outcome, max_tokens, retrieval>>
serverVars == <<current_session, disk, index, uploads, github, session_info,
                file_tree_req, count_from, response>>
vars == <<query, analysis, search_outcome, max_tokens, retrieval,
          current_session, disk, index, uploads, github, session_info,
          file_tree_req, count_from, response>>

IdleOutcome ==
    [raises |-> FALSE, hits |-> << >>, fails_at |-> 0]

\* the state of main.py after import: current_session = generate_new_session()
ServerInit ==
    /\ current_session = generate_new_session(1)
    /\ disk = << >>
    /\ index = << {} >>
    /\ uploads = {}
    /\ github = NoGithub
    /\ session_info = IdleReader
    /\ file_tree_req = IdleReader
    /\ count_from = NoPath
    /\ response = NoResponse

(***************************************************************************)
(* The analyzer applied to one query                                       *)
(***************************************************************************)
AnalyzerInit ==
    /\ query \in Queries
    /\ analysis = NoAnalysis
    /\ search_outcome = IdleOutcome
    /\ max_tokens = 8000
    /\ retrieval = NotRetrieved
    /\ ServerInit

AnalyzeQuery ==
    /\ analysis = NoAnalysis
    /\ retrieval = NotRetrieved
    /\ analysis' = analyze_query(query)
    /\ UNCHANGED <<query, search_outcome, max_tokens, retrieval>>
    /\ UNCHANGED serverVars

AnalyzerNext ==
    AnalyzeQuery

AnalyzerSpec ==
    AnalyzerInit /\ [][AnalyzerNext]_vars

(***************************************************************************)
(* smart_retrieve applied to one query, one search outcome and one budget, *)
(* and the reply chat builds from what it returned                         *)
(***************************************************************************)
\* the server after upload_files has ingested app.py into the first session
ReadyServerInit ==
    /\ current_session = [namespace |-> 1, path |-> 1, files_processed |-> 1]
    /\ disk = << directory({"app.py"}) >>
    /\ index = << upsert_records("app.py") >>
    /\ uploads = {}
    /\ github = NoGithub
    /\ session_info = IdleReader
    /\ file_tree_req = IdleReader
    /\ count_from = 1
    /\ response = NoResponse

RetrieveInit ==
    /\ query \in RetrieveQueries
    /\ analysis = NoAnalysis
    /\ search_outcome \in SearchOutcomes
    /\ max_tokens \in Budgets
    /\ retrieval = NotRetrieved
    /\ ReadyServerInit

\* the search answers with at most as many hits as the request asks for
SmartRetrieve ==
    /\ retrieval = NotRetrieved
    /\ LET r == smart_retrieve(query, current_session.namespace, max_tokens,
                               search_outcome)
       IN  /\ Len(search_outcome.hits) <= HitLimit(r.params)
           /\ retrieval' = r
           /\ analysis' = r.analysis
    /\ UNCHANGED <<query, search_outcome, max_tokens>>
    /\ UNCHANGED serverVars


(***************************************************************************)
(* The request handlers of main.py                                         *)
(*                                                                         *)
(* The async handlers run on the event loop: one runs until it awaits or   *)
(* returns.  upload_files awaits at each file.read(); upload_github, chat, *)
(* reset_session and explain_file never suspend.  The sync handlers        *)
(* file_tree and get_session_info run in worker threads and read the       *)
(* session field by field while the event loop goes on; upload_github is   *)
(* split at its two writes of the session so that they can read between.   *)
(***************************************************************************)
\* what a handler that reads the whole record in one go sees
observe(session) ==
    [path |-> session.path, path_in |-> session.namespace,
     namespace |-> session.namespace,
     files_processed |-> session.files_processed,
     count_in |-> session.namespace, count_from |-> count_from]

\* the response of an ingest or reset, with the session at the request's start
SessionResponse(op, http, success, kind, before) ==
    [Response(op, http, success, kind) EXCEPT !.before = before]

\* upload_files up to its first await: mkdtemp, the write of
\* current_session["path"], makedirs and open of the first file
UploadStart ==
    /\ ~github.active
    /\ Len(disk) < MaxDirs
    /\ Cardinality(uploads) < MaxInFlight
    /\ \E files \in UploadInputs :
        LET temp_dir == Len(disk) + 1
        IN  /\ disk' = Append(disk, directory({files[1]}))
            /\ current_session' = [current_session EXCEPT !.path = temp_dir]
            /\ uploads' = uploads \cup
                   {[temp_dir |-> temp_dir, files |-> files, before |-> current_session]}
    /\ response' = NoResponse
    /\ UNCHANGED <<index, github, session_info, file_tree_req, count_from>>
    /\ UNCHANGED analyzerVars

\* upload_files resumed with another file to save: f.write, then makedirs
\* (which creates temp_dir again if it was removed) and open of the next file
UploadNextFile(u) ==
    /\ ~github.active
    /\ Len(u.files) > 1
    /\ disk' = [disk EXCEPT ![u.temp_dir] = directory(@.files \cup {u.files[2]})]
    /\ uploads' = (uploads \ {u}) \cup {[u EXCEPT !.files = Tail(@)]}
    /\ response' = NoResponse
    /\ UNCHANGED <<current_session, index, github, session_info, file_tree_req,
                   count_from>>
    /\ UNCHANGED analyzerVars

\* upload_files resumed after the last file: load_code_files, one
\* upsert_documents per document with chunks (each may fail and return
\* False), the write of files_processed, the response; no documents raises
\* HTTPException(400), which the handler's except turns into a 500
UploadFinish(u) ==
    /\ ~github.active
    /\ Len(u.files) = 1
    /\ uploads' = uploads \ {u}
    /\ LET documents == load_code_files(disk, u.temp_dir)
           namespace == current_session.namespace
       IN  IF documents = {}
           THEN /\ response' = SessionResponse("upload_files", 500, FALSE, "error",
                                               u.before)
                /\ UNCHANGED <<current_session, index, count_from>>
           ELSE \E upserted \in SUBSET {f \in documents : chunk_texts[f] # << >>} :
                /\ index' = index_upsert(index, namespace,
                                UNION {upsert_records(f) : f \in upserted})
                /\ current_session' = [current_session EXCEPT
                                          !.files_processed = Cardinality(upserted)]
                /\ count_from' = u.temp_dir
                /\ response' = SessionResponse("upload_files", 200, TRUE, "processed",
                                               u.before)
    /\ UNCHANGED <<disk, github, session_info, file_tree_req>>
    /\ UNCHANGED analyzerVars

\* upload_github up to load_code_files: clone_repo makes the directory and
\* may raise; after it the handler writes current_session["path"]; a
\* repository without documents raises
GithubClone ==
    /\ ~github.active
    /\ Len(disk) < MaxDirs
    /\ \E cloned \in BOOLEAN, repo \in SUBSET FileNames :
        LET folder == Len(disk) + 1
            documents == {f \in repo : f \in supported}
        IN  IF ~cloned
            THEN /\ repo = {}
                 /\ disk' = Append(disk, directory({}))
                 /\ response' = SessionResponse("upload_github", 500, FALSE, "error",
                                                current_session)
                 /\ UNCHANGED <<current_session, github>>
            ELSE /\ disk' = Append(disk, directory(repo))
                 /\ current_session' = [current_session EXCEPT !.path = folder]
                 /\ IF documents = {}
                    THEN /\ response' = SessionResponse("upload_github", 500, FALSE,
                                                        "error", current_session)
                         /\ UNCHANGED github
                    ELSE /\ github' = [active |-> TRUE, folder |-> folder,
                                       documents |-> documents,
                                       before |-> current_session]
                         /\ response' = NoResponse
    /\ UNCHANGED <<index, uploads, session_info, file_tree_req, count_from>>
    /\ UNCHANGED analyzerVars

\* the rest of upload_github: every document counts as processed, one
\* batch_upsert_documents for all chunks (it may fail and return False), the
\* write of files_processed, the response
GithubIngest ==
    /\ github.active
    /\ LET all_chunks == UNION {batch_records(f) : f \in github.documents}
           namespace == current_session.namespace
       IN  /\ \E success \in BOOLEAN :
                index' = IF all_chunks # {} /\ success
                         THEN index_upsert(index, namespace, all_chunks)
                         ELSE index
           /\ current_session' = [current_session EXCEPT
                                     !.files_processed = Cardinality(github.documents)]
           /\ count_from' = github.folder
           /\ response' = SessionResponse("upload_github", 200, TRUE, "processed",
                                          github.before)
    /\ github' = NoGithub
    /\ UNCHANGED <<disk, uploads, session_info, file_tree_req>>
    /\ UNCHANGED analyzerVars

\* reset_session: rmtree of the recorded path with ignore_errors (the
\* directory may survive), then a new session under a fresh namespace
ResetSession ==
    /\ ~github.active
    /\ Len(index) < MaxNamespaces
    /\ LET removable == /\ current_session.path # NoPath
                        /\ path_exists(disk, current_session.path)
       IN  \E deleted \in BOOLEAN :
            /\ deleted => removable
            /\ disk' = IF deleted
                       THEN [disk EXCEPT ![current_session.path] = removed_directory]
                       ELSE disk
    /\ index' = Append(index, {})
    /\ current_session' = generate_new_session(Len(index) + 1)
    /\ count_from' = NoPath
    /\ response' = SessionResponse("reset", 200, TRUE, "reset", current_session)
    /\ UNCHANGED <<uploads, github, session_info, file_tree_req>>
    /\ UNCHANGED analyzerVars

\* the search query of try_embedded_explanation
explain_query(f) ==
    <<"f","i","l","e",":">> \o file_chars[f] \o <<" ","c","o","n","t","e","n","t">>

\* analyze_query of every query the handlers of the model retrieve for,
\* evaluated once
analysis_of ==
    [q \in ChatMessages \cup {explain_query(f) : f \in FileNames} |->
        analyze_query(q)]

\* file_summary overwriting the language of a file at each of its chunks
RECURSIVE file_summary_last_language(_, _)
file_summary_last_language(chunks, i) ==
    IF i = 0 THEN << >>
    ELSE LET sofar == file_summary_last_language(chunks, i - 1)
             c == chunks[i]
             seen == {k \in 1..Len(sofar) : sofar[k].file_name = c.file_name}
         IN  IF seen = {}
             THEN Append(sofar, [file_name |-> c.file_name, count |-> 1,
                                 language |-> c.language])
             ELSE [k \in 1..Len(sofar) |->
                      IF k \in seen
                      THEN [sofar[k] EXCEPT !.count = @ + 1, !.language = c.language]
                      ELSE sofar[k]]

\* file_summary of chat over the first i chunks: one entry per file name in
\* first-seen order, with the count of its chunks and the language of its
\* first chunk
RECURSIVE file_summary(_, _)
file_summary(chunks, i) ==
    IF i = 0 THEN << >>
    ELSE LET sofar == file_summary(chunks, i - 1)
             c == chunks[i]
             seen == {k \in 1..Len(sofar) : sofar[k].file_name = c.file_name}
         IN  IF seen = {}
             THEN Append(sofar, [file_name |-> c.file_name, count |-> 1,
                                 language |-> c.language])
             ELSE [k \in 1..Len(sofar) |->
                      IF k \in seen THEN [sofar[k] EXCEPT !.count = @ + 1]
                      ELSE sofar[k]]

\* chat asking the LLM also when nothing was retrieved
chat_answer_llm_always(message, retrieved_chunks, llm_ok) ==
    LET base == [Response("chat", 200, TRUE, "nothing_relevant") EXCEPT
                    !.message = message,
                    !.calls = {"smart_retrieve", "analyze_query", "search", "ask_llm"},
                    !.llm_calls = 1]
    IN  IF llm_ok
        THEN [base EXCEPT !.kind = "answer",
                          !.chunks_found = Len(retrieved_chunks),
                          !.files_involved =
                              Len(file_summary(retrieved_chunks, Len(retrieved_chunks)))]
        ELSE [base EXCEPT !.http = 500, !.success = FALSE, !.kind = "error",
                          !.llm_failed = TRUE]

\* chat without its except clause: a failure of ask_llm leaves the handler
\* as an exception and no response is built
chat_answer_unhandled(message, retrieved_chunks, llm_ok) ==
    LET base == [Response("chat", 200, TRUE, "nothing_relevant") EXCEPT
                    !.message = message,
                    !.calls = {"smart_retrieve", "analyze_query", "search"}]
    IN  IF retrieved_chunks = << >> THEN base
        ELSE IF llm_ok
        THEN [base EXCEPT !.kind = "answer",
                          !.calls = @ \cup {"ask_llm"}, !.llm_calls = 1,
                          !.chunks_found = Len(retrieved_chunks),
                          !.files_involved =
                              Len(file_summary(retrieved_chunks, Len(retrieved_chunks)))]
        ELSE [base EXCEPT !.http = 0, !.success = FALSE, !.kind = "unhandled",
                          !.calls = @ \cup {"ask_llm"}, !.llm_calls = 1,
                          !.llm_failed = TRUE]

\* the answer of chat for a session that passed its test: retrieved_chunks
\* is the list smart_retrieve returned, llm_ok whether ask_llm returns or
\* raises (the handler's except then answers 500)
chat_answer(message, retrieved_chunks, llm_ok) ==
    LET base == [Response("chat", 200, TRUE, "nothing_relevant") EXCEPT
                    !.message = message,
                    !.calls = {"smart_retrieve", "analyze_query", "search"}]
    IN  IF retrieved_chunks = << >> THEN base
        ELSE IF llm_ok
        THEN [base EXCEPT !.kind = "answer",
                          !.calls = @ \cup {"ask_llm"}, !.llm_calls = 1,
                          !.chunks_found = Len(retrieved_chunks),
                          !.files_involved =
                              Len(file_summary(retrieved_chunks, Len(retrieved_chunks)))]
        ELSE [base EXCEPT !.http = 500, !.success = FALSE, !.kind = "error",
                          !.calls = @ \cup {"ask_llm"}, !.llm_calls = 1,
                          !.llm_failed = TRUE]

\* the test chat makes before retrieving: no path, or no processed file
session_has_no_data(session) ==
    session.path = NoPath \/ session.files_processed = 0

\* the rest of chat once smart_retrieve has returned, for the query, the
\* search outcome and the budget of RetrieveInit: the session has passed
\* the test of chat
ChatReply ==
    /\ ~session_has_no_data(current_session)
    /\ retrieval # NotRetrieved
    /\ response = NoResponse
    /\ \E llm_ok \in BOOLEAN :
        /\ retrieval.result = << >> => llm_ok
        /\ response' = [chat_answer(query, retrieval.result, llm_ok) EXCEPT
                           !.failure = retrieval.failure]
    /\ UNCHANGED <<current_session, disk, index, uploads, github, session_info,
                   file_tree_req, count_from>>
    /\ UNCHANGED analyzerVars

RetrieveNext ==
    \/ SmartRetrieve
    \/ ChatReply

RetrieveSpec ==
    RetrieveInit /\ [][RetrieveNext]_vars

\* chat: the handler tests path and files_processed, then retrieves
Chat ==
    /\ ~github.active
    /\ \E message \in ChatMessages :
        LET namespace == current_session.namespace
            seen == observe(current_session)
        IN  IF session_has_no_data(current_session)
            THEN response' = [Response("chat", 200, FALSE, "not_ready") EXCEPT
                                 !.message = message, !.observed = seen]
            ELSE LET an == analysis_of[message]
                 IN  \E budget \in ChatBudgets,
                        outcome \in search_outcomes(index[namespace],
                            build_search_params(message, namespace, an)),
                        llm_ok \in BOOLEAN :
                     LET r == retrieve_with(an, message, namespace, budget, outcome)
                     IN  /\ r.result = << >> => llm_ok
                         /\ response' = [chat_answer(message, r.result, llm_ok) EXCEPT
                                            !.observed = seen,
                                            !.failure = r.failure]
    /\ UNCHANGED <<current_session, disk, index, uploads, github, session_info,
                   file_tree_req, count_from>>
    /\ UNCHANGED analyzerVars

\* the files of a folder whose content read_file_with_limit returns empty:
\* those an upload has opened for writing and not written yet
empty_files(folder) ==
    {u.files[1] : u \in {v \in uploads : v.temp_dir = folder}}

\* try_direct_explanation: an empty content is a read error; ask_llm raising
\* is answered with an error body
direct_explanation(f, llm_ok, base) ==
    IF f \in empty_files(current_session.path)
    THEN [base EXCEPT !.success = FALSE, !.kind = "read_error"]
    ELSE IF llm_ok
    THEN [base EXCEPT !.success = TRUE, !.kind = "direct_read",
                      !.calls = @ \cup {"ask_llm"}, !.llm_calls = @ + 1]
    ELSE [base EXCEPT !.success = FALSE, !.kind = "error",
                      !.calls = @ \cup {"ask_llm"}, !.llm_calls = @ + 1,
                      !.llm_failed = TRUE]

\* try_embedded_explanation or try_direct_explanation: results is what
\* smart_retrieve returned; the chunks of the file are those whose file_path
\* ends with the path of the file below the session path; when ask_llm
\* raises for them the direct explanation is tried
explanation(f, results, llm_ok, llm_ok2) ==
    LET base == [Response("explain_file", 200, FALSE, "none") EXCEPT
                    !.message = explain_query(f),
                    !.calls = {"smart_retrieve", "analyze_query", "search"}]
        file_chunks == SelectSeq(results, LAMBDA chunk : chunk.file_path = f)
    IN  IF file_chunks = << >> THEN direct_explanation(f, llm_ok2, base)
        ELSE IF llm_ok
        THEN [base EXCEPT !.success = TRUE, !.kind = "embedded",
                          !.calls = @ \cup {"ask_llm"}, !.llm_calls = 1,
                          !.chunks_found = Len(file_chunks)]
        ELSE direct_explanation(f, llm_ok2,
                 [base EXCEPT !.calls = @ \cup {"ask_llm"}, !.llm_calls = 1,
                              !.llm_failed = TRUE])

\* explain_file: the handler tests that the path is set and exists and that
\* the file is in the repository, then retrieves
ExplainFile ==
    /\ ~github.active
    /\ \E file_path \in FileNames \cup {""} :
        LET folder == current_session.path
            namespace == current_session.namespace
            seen == observe(current_session)
        IN  IF file_path = "" \/ folder = NoPath \/ ~path_exists(disk, folder)
            THEN response' = [Response("explain_file", 500, FALSE, "error") EXCEPT
                                 !.observed = seen]
            ELSE IF file_path \notin disk[folder].files
            THEN response' = [Response("explain_file", 200, FALSE, "file_not_found")
                                 EXCEPT !.observed = seen]
            ELSE LET q == explain_query(file_path)
                     an == analysis_of[q]
                 IN  \E outcome \in search_outcomes(index[namespace],
                            build_search_params(q, namespace, an)),
                        llm_ok \in BOOLEAN, llm_ok2 \in BOOLEAN :
                     LET r == retrieve_with(an, q, namespace, 8000, outcome)
                     IN  response' = [explanation(file_path, r.result, llm_ok, llm_ok2)
                                         EXCEPT !.observed = seen,
                                                !.failure = r.failure]
    /\ UNCHANGED <<current_session, disk, index, uploads, github, session_info,
                   file_tree_req, count_from>>
    /\ UNCHANGED analyzerVars

\* the requests worker threads are serving
threads_busy ==
    Cardinality({r \in {"session_info", "file_tree"} :
        (IF r = "session_info" THEN session_info ELSE file_tree_req).pc # "idle"})

\* get_session_info, first read: current_session["path"] and os.path.exists
SessionInfoReadPath ==
    /\ session_info.pc = "idle"
    /\ threads_busy < MaxThreads
    /\ session_info' = [IdleReader EXCEPT
                           !.pc = "path_read",
                           !.path = current_session.path,
                           !.path_in = current_session.namespace,
                           !.exists = path_exists(disk, current_session.path)]
    /\ response' = NoResponse
    /\ UNCHANGED <<current_session, disk, index, uploads, github, file_tree_req,
                   count_from>>
    /\ UNCHANGED analyzerVars

\* get_session_info, second read: files_processed, for has_data
SessionInfoReadCount ==
    /\ session_info.pc = "path_read"
    /\ session_info' = [session_info EXCEPT
                           !.pc = "has_data",
                           !.has_data = /\ session_info.path # NoPath
                                        /\ session_info.exists
                                        /\ current_session.files_processed > 0]
    /\ response' = NoResponse
    /\ UNCHANGED <<current_session, disk, index, uploads, github, file_tree_req,
                   count_from>>
    /\ UNCHANGED analyzerVars

\* get_session_info, third read: current_session["namespace"]
SessionInfoReadNamespace ==
    /\ session_info.pc = "has_data"
    /\ session_info' = [session_info EXCEPT
                           !.pc = "namespace_read",
                           !.namespace = current_session.namespace]
    /\ response' = NoResponse
    /\ UNCHANGED <<current_session, disk, index, uploads, github, file_tree_req,
                   count_from>>
    /\ UNCHANGED analyzerVars

\* get_session_info, last read: files_processed again, and the response
SessionInfoRespond ==
    /\ session_info.pc = "namespace_read"
    /\ session_info' = IdleReader
    /\ response' = [Response("session_info", 200, session_info.has_data, "info") EXCEPT
                       !.observed = [path |-> session_info.path,
                                     path_in |-> session_info.path_in,
                                     namespace |-> session_info.namespace,
                                     files_processed |-> current_session.files_processed,
                                     count_in |-> current_session.namespace,
                                     count_from |-> count_from]]
    /\ UNCHANGED <<current_session, disk, index, uploads, github, file_tree_req,
                   count_from>>
    /\ UNCHANGED analyzerVars

\* file_tree, the test of the folder: no path, or a path that does not
\* exist, is answered at once
FileTreeReadPath ==
    /\ file_tree_req.pc = "idle"
    /\ threads_busy < MaxThreads
    /\ LET folder == current_session.path
       IN  IF folder = NoPath \/ ~path_exists(disk, folder)
           THEN /\ response' = [Response("file_tree", 200, FALSE, "no_files_uploaded")
                                   EXCEPT !.observed = observe(current_session)]
                /\ UNCHANGED file_tree_req
           ELSE /\ file_tree_req' = [IdleReader EXCEPT
                                        !.pc = "path_read", !.path = folder,
                                        !.exists = TRUE,
                                        !.path_in = current_session.namespace]
                /\ response' = NoResponse
    /\ UNCHANGED <<current_session, disk, index, uploads, github, session_info,
                   count_from>>
    /\ UNCHANGED analyzerVars

\* file_tree, build_file_tree of the folder read before (an empty list when
\* listing fails) and the response, which reads files_processed
FileTreeRespond ==
    /\ file_tree_req.pc = "path_read"
    /\ file_tree_req' = IdleReader
    /\ LET folder == file_tree_req.path
           tree == IF path_exists(disk, folder) THEN disk[folder].files ELSE {}
           seen == [path |-> folder,
                    path_in |-> file_tree_req.path_in,
                    namespace |-> file_tree_req.path_in,
                    files_processed |-> current_session.files_processed,
                    count_in |-> current_session.namespace,
                    count_from |-> count_from]
       IN  IF tree = {}
           THEN response' = [Response("file_tree", 200, FALSE, "no_files_found") EXCEPT
                                !.observed = seen]
           ELSE response' = [Response("file_tree", 200, TRUE, "tree") EXCEPT
                                !.observed = seen]
    /\ UNCHANGED <<current_session, disk, index, uploads, github, session_info,
                   count_from>>
    /\ UNCHANGED analyzerVars

ServerStart ==
    /\ query = << >>
    /\ analysis = NoAnalysis
    /\ search_outcome = IdleOutcome
    /\ max_tokens = 8000
    /\ retrieval = NotRetrieved
    /\ ServerInit

\* the handlers that run on the event loop
Next ==
    \/ UploadStart
    \/ \E u \in uploads : UploadNextFile(u)
    \/ \E u \in uploads : UploadFinish(u)
    \/ GithubClone
    \/ GithubIngest
    \/ ResetSession
    \/ Chat
    \/ ExplainFile

Spec ==
    ServerStart /\ [][Next]_vars

\* the handlers that write the session, with the handlers served by worker
\* threads reading it meanwhile
ThreadNext ==
    \/ UploadStart
    \/ \E u \in uploads : UploadNextFile(u)
    \/ \E u \in uploads : UploadFinish(u)
    \/ GithubClone
    \/ GithubIngest
    \/ ResetSession
    \/ SessionInfoReadPath
    \/ SessionInfoReadCount
    \/ SessionInfoReadNamespace
    \/ SessionInfoRespond
    \/ FileTreeReadPath
    \/ FileTreeRespond

ThreadSpec ==
    ServerStart /\ [][ThreadNext]_vars

\* the handlers that write the session, the index or the working
\* directories: the ingests and the reset
SessionNext ==
    \/ UploadStart
    \/ \E u \in uploads : UploadNextFile(u)
    \/ \E u \in uploads : UploadFinish(u)
    \/ GithubClone
    \/ GithubIngest
    \/ ResetSession

SessionSpec ==
    ServerStart /\ [][SessionNext]_vars

(***************************************************************************)
(* Properties of the query analyzer (AnalyzerSpec)                         *)
(***************************************************************************)
Analyzed ==
    analysis # NoAnalysis

\* C1, as stated: for the query "explain the architecture of this project"
\* analyze_query returns intent analysis, complexity low, base_k 10,
\* should_rerank true and rerank_top_n 5.
C1_ScenarioAsStated ==
    (Analyzed /\ query = ScenarioQuery) =>
        /\ analysis.intent = "analysis"
        /\ analysis.complexity = "low"
        /\ analysis.base_k = 10
        /\ analysis.should_rerank = TRUE
        /\ analysis.rerank_top_n = 5

\* C1, amended: the query contains the summary keyword "explain", which is
\* tested before the analysis keyword "architecture": analyze_query returns
\* intent summary, complexity low, base_k 8, should_rerank true and
\* rerank_top_n 4.
C1_ScenarioIsSummary ==
    (Analyzed /\ query = ScenarioQuery) =>
        /\ analysis.intent = "summary"
        /\ analysis.complexity = "low"
        /\ analysis.base_k = 8
        /\ analysis.should_rerank = TRUE
        /\ analysis.rerank_top_n = 4

C1_Witness ==
    /\ Analyzed
    /\ query = ScenarioQuery
    /\ analysis.base_k = 8

\* the categories in the order their keyword lists are tested
IntentOrder ==
    <<"summary", "analysis", "bug_check", "specific">>
KeywordLists ==
    <<summary_keywords, analysis_keywords, bug_keywords, specific_keywords>>
\* some keyword of the n-th list is a substring of text
ListMatches(n, text) ==
    \E j \in 1..Len(KeywordLists[n]) : Contains(text, KeywordLists[n][j])

\* C2: the intent is the first category, in the order summary, analysis,
\* bug_check, specific, one of whose keywords is a substring of the
\* lower-cased query, and it is general exactly when no keyword of any list
\* is one.
C2_FirstMatchingListWins ==
    Analyzed =>
        LET text == lower(query)
        IN  /\ \A n \in 1..4 :
                 analysis.intent = IntentOrder[n] <=>
                    /\ ListMatches(n, text)
                    /\ \A m \in 1..(n - 1) : ~ListMatches(m, text)
            /\ analysis.intent = "general" <=> \A n \in 1..4 : ~ListMatches(n, text)

\* a query with a keyword of the bug list and one of the code-identifier
\* list, an upper-case letter among them, classified as bug_check
C2_Witness ==
    /\ Analyzed
    /\ ListMatches(3, lower(query))
    /\ ListMatches(4, lower(query))
    /\ ~ListMatches(3, query)
    /\ analysis.intent = "bug_check"

\* C3, as stated: specificity is computed from the query as received: more
\* than 2 CamelCase-like tokens or more than 1 code-shape pattern make it
\* high, at least one of either makes it at least medium, none makes it low.
C3_SpecificityOfRawQuery ==
    Analyzed =>
        LET camel_count == CamelFindAll(query, 1)
            code_pattern_count == CodeFindAll(query, 1)
        IN  /\ (camel_count > 2 \/ code_pattern_count > 1) =>
                    analysis.specificity = "high"
            /\ (camel_count > 0 \/ code_pattern_count > 0) =>
                    analysis.specificity \in {"medium", "high"}
            /\ (camel_count = 0 /\ code_pattern_count = 0) =>
                    analysis.specificity = "low"

(***************************************************************************)
(* Properties of smart_retrieve (RetrieveSpec)                             *)
(***************************************************************************)
\* smart_retrieve returned and the search had answered with a ranked list
Retrieved ==
    retrieval.called /\ ~search_outcome.raises /\ search_outcome.fails_at = 0

\* the estimated cost of the first n hits, len(text) // 4 each
RECURSIVE PrefixCost(_, _)
PrefixCost(hits, n) ==
    IF n = 0 THEN 0 ELSE PrefixCost(hits, n - 1) + (hits[n].text_len \div 4)

\* C4, as stated: a non-empty ranked hit list yields a bundle of at least
\* one hit, also when the first hit alone costs more than the budget.
C4_AtLeastOneHit ==
    (Retrieved /\ search_outcome.hits # << >>) =>
        Len(retrieval.result) >= 1

\* C4, amended: a non-empty ranked hit list yields a bundle of at least one
\* hit exactly when the cost of the first hit does not exceed the budget;
\* when it does, the bundle is empty.
C4_FirstHitMustFit ==
    (Retrieved /\ search_outcome.hits # << >>) =>
        (Len(retrieval.result) >= 1 <=>
            search_outcome.hits[1].text_len \div 4 <= max_tokens)

\* hits were found, the first costs more than the budget, nothing is returned
C4_Witness ==
    /\ Retrieved
    /\ search_outcome.hits # << >>
    /\ search_outcome.hits[1].text_len \div 4 > max_tokens
    /\ retrieval.result = << >>

\* C5: the accepted hits are the longest prefix of the ranked list whose
\* cumulative estimated cost does not exceed the budget, in rank order;
\* costs 100, 100, 100 under a budget of 250 yield the first two hits.
C5_LongestPrefixWithinBudget ==
    Retrieved =>
        LET hits == search_outcome.hits
            n == Len(retrieval.result)
        IN  /\ n <= Len(hits)
            /\ \A i \in 1..n :
                 /\ retrieval.result[i].text_len = hits[i].text_len
                 /\ retrieval.result[i].file_name = hits[i].file_name
            /\ PrefixCost(hits, n) <= max_tokens
            /\ n < Len(hits) => PrefixCost(hits, n + 1) > max_tokens
            /\ ( /\ Len(hits) = 3
                 /\ \A i \in 1..3 : hits[i].text_len \div 4 = 100
                 /\ max_tokens = 250 ) => n = 2

\* three hits of 100 tokens under a budget of 250: two accepted
C5_Witness ==
    /\ Retrieved
    /\ Len(search_outcome.hits) = 3
    /\ \A i \in 1..3 : search_outcome.hits[i].text_len \div 4 = 100
    /\ max_tokens = 250
    /\ Len(retrieval.result) = 2

(***************************************************************************)
(* Properties of the session under the request handlers (Spec, ThreadSpec) *)
(***************************************************************************)
IngestOps ==
    {"upload_files", "upload_github"}

\* an ingest request has started and not answered yet
IngestInProgress ==
    uploads # {} \/ github.active

\* READY: the root path is set and files were processed
Ready(session) ==
    session.path # NoPath /\ session.files_processed > 0

\* C6, as stated: an ingest that ends in an error response leaves the
\* session record (namespace, root path, files_processed) as it was before
\* the request.
C6_FailedIngestLeavesSession ==
    (response.op \in IngestOps /\ response.http # 200) =>
        current_session = response.before

\* the step creates a session: only reset_session does
ResetStep ==
    Len(index') = Len(index) + 1

\* C7, as stated: every ingest that returns success leaves the session READY
\* (root path set and files_processed > 0), and a READY session becomes
\* not-ready only through reset.
C7_SessionStateMachine ==
    [][ /\ (response'.op \in IngestOps /\ response'.success) => Ready(current_session')
        /\ (Ready(current_session) /\ ~Ready(current_session')) => ResetStep ]_vars

\* C8, as stated: chat and explain-file invoke smart_retrieve only when
\* is_ready holds (root path set, path exists, files_processed > 0), and chat
\* answers not-ready otherwise.
C8_RetrievalOnlyWhenReady ==
    response.op \in {"chat", "explain_file"} =>
        /\ "smart_retrieve" \in response.calls => is_ready(current_session, disk)
        /\ (response.op = "chat" /\ ~is_ready(current_session, disk)) =>
                response.kind = "not_ready"

\* the message is empty or consists of whitespace
IsBlank(message) ==
    \A i \in 1..Len(message) : IsSpace(message[i])

\* C9, as stated: a chat request with an empty or whitespace-only message is
\* answered without analyze_query, the vector search or the LLM being called.
C9_BlankMessageShortCircuits ==
    (response.op = "chat" /\ IsBlank(response.message)) =>
        response.calls \cap {"analyze_query", "search", "ask_llm"} = {}

\* the fields a reader saw belong together: path and files_processed were
\* written by the same ingest (or by none), and were read, with the
\* namespace, from the same session
ConsistentSnapshot(seen) ==
    /\ seen.path = seen.count_from
    /\ seen.path_in = seen.namespace
    /\ seen.count_in = seen.namespace

\* C10, as stated: a reader (chat, session-info, file-tree) answered while
\* an ingest is in progress saw a consistent snapshot of the session, never
\* the root path of one ingest with the files_processed or namespace of
\* another ingest or of the state before it.
C10_ReadersSeeSnapshot ==
    (response.op \in {"chat", "session_info", "file_tree"} /\ IngestInProgress) =>
        ConsistentSnapshot(response.observed)

\* C11, as stated: in every reachable state files_processed > 0 implies that
\* a chunk was upserted into the namespace of the session; an ingest whose
\* upsert calls all failed never leaves files_processed > 0.
C11_ProcessedMeansUpserted ==
    current_session.files_processed > 0 =>
        index[current_session.namespace] # {}

\* C12: the namespace of the session changes only in a reset: every other
\* step, a successful or failed ingest and a second upload into a READY
\* session among them, leaves it as it was, and every chunk a step upserts
\* is stored under that namespace.
C12_NamespaceStableAcrossIngest ==
    [][ /\ current_session'.namespace # current_session.namespace =>
              response'.op = "reset"
        /\ \A n \in 1..Len(index) :
              index'[n] # index[n] =>
                 /\ n = current_session.namespace
                 /\ n = current_session'.namespace ]_vars

\* a second ingest into a READY session succeeded: the namespace is the one
\* held before it and holds the chunks of both ingests
C12_Witness ==
    /\ response.op \in IngestOps
    /\ response.success
    /\ Ready(response.before)
    /\ response.before.namespace = current_session.namespace
    /\ Cardinality(index[current_session.namespace]) >= 2

\* C13: when reset-session returns, whether or not the old working
\* directory was deleted, the root path is unset, files_processed is 0 and
\* the namespace differs from the one held before, so that the test of chat
\* answers not-ready.
C13_ResetLeavesCleanSession ==
    [][ response'.op = "reset" =>
            /\ current_session'.path = NoPath
            /\ current_session'.files_processed = 0
            /\ current_session'.namespace # current_session.namespace
            /\ session_has_no_data(current_session') ]_vars

\* a session that had ingested chunks was reset, its working directory
\* survived the deletion, and an ingest after the reset made the new session
\* READY
C13_Witness ==
    /\ response.op \in IngestOps
    /\ response.success
    /\ response.before = generate_new_session(current_session.namespace)
    /\ current_session.namespace > 1
    /\ Ready(current_session)
    /\ index[1] # {}
    /\ uploads = {}
    /\ \E d \in 1..Len(disk) : d # current_session.path /\ disk[d].exists

\* C14: smart_retrieve calls the search with top_k equal to base_k of the
\* analysis it made of the query; when should_rerank is true the request carries a
\* rerank entry whose top_n is rerank_top_n, and when it is false the
\* request carries no rerank entry.
C14_SearchRequestFollowsAnalysis ==
    retrieval.called =>
        LET an == analysis
            params == retrieval.params
        IN  /\ params.top_k = an.base_k
            /\ an.should_rerank =>
                  /\ params.rerank # NoRerank
                  /\ params.rerank.top_n = an.rerank_top_n
            /\ ~an.should_rerank => params.rerank = NoRerank

\* a summary query: the search is asked for 8 hits reranked down to 4
C14_Witness ==
    /\ retrieval.called
    /\ analysis.should_rerank
    /\ retrieval.params.top_k = 8
    /\ retrieval.params.rerank # NoRerank
    /\ retrieval.params.rerank.top_n = 4

(***************************************************************************)
(* Properties of the retrieval plan (AnalyzerSpec)                         *)
(***************************************************************************)
Intents ==
    {"summary", "analysis", "bug_check", "specific", "general"}
ComplexityLevels ==
    {"low", "medium", "high"}

\* C15: whenever should_rerank is true, 3 <= rerank_top_n <= base_k: for
\* the analysis of every query, and for every (intent, complexity) pair of
\* the table.
C15_RerankTopNWithinBounds ==
    /\ (Analyzed /\ analysis.should_rerank) =>
          /\ 3 <= analysis.rerank_top_n
          /\ analysis.rerank_top_n <= analysis.base_k
    /\ \A intent \in Intents, complexity \in ComplexityLevels :
          should_rerank(intent) =>
             LET base_k == calculate_base_k(intent, complexity)
                 top_n == rerank_top_n(TRUE, base_k)
             IN  3 <= top_n /\ top_n <= base_k

\* the reranked pair with the smallest base_k: summary, low, 8 and 4
C15_Witness ==
    /\ Analyzed
    /\ analysis.should_rerank
    /\ analysis.intent = "summary"
    /\ analysis.complexity = "low"
    /\ analysis.rerank_top_n = 4
    /\ query # ScenarioQuery

\* C16: rerank_top_n is max(3, base_k // 2), floor division, when
\* should_rerank is true and base_k when it is false, for every
\* (intent, complexity) pair.
C16_RerankTopNFormula ==
    Analyzed =>
        LET half == analysis.base_k \div 2
        IN  /\ 2 * half <= analysis.base_k
            /\ analysis.base_k < 2 * half + 2
            /\ analysis.should_rerank =>
                  analysis.rerank_top_n = (IF half >= 3 THEN half ELSE 3)
            /\ ~analysis.should_rerank =>
                  analysis.rerank_top_n = analysis.base_k

\* an odd base_k halved downwards: summary, medium, 15 and 7
C16_Witness ==
    /\ Analyzed
    /\ analysis.should_rerank
    /\ analysis.base_k = 15
    /\ analysis.rerank_top_n = 7

\* C17: should_rerank is true exactly when the classified intent is summary,
\* analysis or bug_check, and false for specific and general.
C17_RerankIffBroadIntent ==
    Analyzed =>
        /\ analysis.intent = classify_intent(lower(query))
        /\ analysis.intent \in Intents
        /\ analysis.should_rerank = TRUE <=>
              analysis.intent \in {"summary", "analysis", "bug_check"}
        /\ analysis.should_rerank = FALSE <=>
              analysis.intent \in {"specific", "general"}

\* a query of the code-identifier list, not reranked
C17_Witness ==
    /\ Analyzed
    /\ analysis.intent = "specific"
    /\ analysis.should_rerank = FALSE

\* C18: base_k is defined for the 15 (intent, complexity) pairs, it is the
\* cell of the table for the pair, an unrecognized intent reads the general
\* row, and every cell is at least 3.
C18_BaseKFromTable ==
    /\ Analyzed =>
          /\ analysis.intent \in Intents
          /\ analysis.complexity \in ComplexityLevels
          /\ analysis.base_k = base_values[analysis.intent][analysis.complexity]
          /\ analysis.base_k >= 3
    /\ DOMAIN base_values = Intents
    /\ \A intent \in Intents :
          /\ DOMAIN base_values[intent] = ComplexityLevels
          /\ \A complexity \in ComplexityLevels :
                /\ calculate_base_k(intent, complexity) = base_values[intent][complexity]
                /\ calculate_base_k(intent, complexity) \in Nat
                /\ calculate_base_k(intent, complexity) >= 3
    /\ \A complexity \in ComplexityLevels :
          calculate_base_k("refactor", complexity) = base_values["general"][complexity]

\* the smallest cell: specific, low, 3
C18_Witness ==
    /\ Analyzed
    /\ analysis.intent = "specific"
    /\ analysis.complexity = "low"
    /\ analysis.base_k = 3

\* the number of words of query.split()
WordCount(q) ==
    Cardinality(WordStarts(q))
\* the number of those words that are interrogatives, letter case aside
InterrogativeCount(q) ==
    Cardinality({i \in WordStarts(q) : WordAt(lower(q), i) \in question_words_set})

\* C19: complexity is high when the word count is > 15 or the interrogative
\* count is > 2, otherwise medium when the word count is > 8 or the
\* interrogative count is > 1, otherwise low; "what" is low and a query of
\* 20 words with 3 interrogatives is high.
C19_ComplexityThresholds ==
    Analyzed =>
        LET word_count == WordCount(query)
            interrogative_count == InterrogativeCount(query)
        IN  /\ analysis.complexity = "high" <=>
                  (word_count > 15 \/ interrogative_count > 2)
            /\ analysis.complexity = "medium" <=>
                  /\ ~(word_count > 15 \/ interrogative_count > 2)
                  /\ (word_count > 8 \/ interrogative_count > 1)
            /\ analysis.complexity = "low" <=>
                  (word_count <= 8 /\ interrogative_count <= 1)
            /\ query = <<"w","h","a","t">> => analysis.complexity = "low"
            /\ (word_count = 20 /\ interrogative_count = 3) =>
                  analysis.complexity = "high"

\* 9 words without an interrogative: medium by the word count alone
C19_Witness ==
    /\ Analyzed
    /\ WordCount(query) = 9
    /\ InterrogativeCount(query) = 0
    /\ analysis.complexity = "medium"

(***************************************************************************)
(* Properties of failing retrieval (RetrieveSpec)                          *)
(***************************************************************************)
\* C20: when the search raises, or a hit raises while smart_retrieve reads
\* it, smart_retrieve returns the empty list and not the hits accepted so
\* far, and chat answers with the nothing-relevant response, which is not an
\* error and involves neither chunks nor the LLM.
C20_FailedSearchGivesNothingRelevant ==
    /\ (retrieval.called /\ search_outcome.raises) =>
          /\ retrieval.failure = "search"
          /\ retrieval.result = << >>
    /\ (retrieval.called /\ retrieval.failure = "hits") =>
          retrieval.result = << >>
    /\ (response.op = "chat" /\ retrieval.failure # "none") =>
          /\ response.kind = "nothing_relevant"
          /\ response.http = 200
          /\ response.success
          /\ response.chunks_found = 0
          /\ response.llm_calls = 0

\* the last of several hits raised after the loop had accepted the hits
\* before it, and chat answered nothing-relevant
C20_Witness ==
    /\ response.op = "chat"
    /\ retrieval.failure = "hits"
    /\ search_outcome.fails_at >= 2
    /\ response.kind = "nothing_relevant"

(***************************************************************************)
(* Properties of the reply of chat (RetrieveSpec)                          *)
(***************************************************************************)
\* C21: when smart_retrieve returns the empty list for a ready session,
\* chat answers with the successful nothing-relevant response, chunks_found
\* 0 and no call of the LLM; a chat request calls the LLM at most once, and
\* only after a non-empty list was retrieved.
C21_EmptyResultSkipsLLM ==
    response.op = "chat" =>
        /\ ~session_has_no_data(current_session)
        /\ retrieval.called
        /\ retrieval.result = << >> =>
              /\ response.kind = "nothing_relevant"
              /\ response.http = 200
              /\ response.success
              /\ response.chunks_found = 0
              /\ response.llm_calls = 0
              /\ "ask_llm" \notin response.calls
        /\ response.llm_calls <= 1
        /\ "ask_llm" \in response.calls <=> response.llm_calls = 1
        /\ response.llm_calls = 1 => retrieval.result # << >>

\* the search found hits, none fits the budget, and chat answers
\* nothing-relevant without the LLM
C21_Witness ==
    /\ response.op = "chat"
    /\ retrieval.failure = "none"
    /\ search_outcome.hits # << >>
    /\ retrieval.result = << >>
    /\ response.kind = "nothing_relevant"
    /\ response.llm_calls = 0

\* C22: when ask_llm raises during chat, the handler catches the exception
\* and answers with an error response (HTTP 500 with the detail), and the
\* session record is left as it was.
C22_LLMFailureBecomesErrorResponse ==
    [][ (response'.op = "chat" /\ response'.llm_failed) =>
            /\ response'.kind = "error"
            /\ response'.http = 500
            /\ ~response'.success
            /\ response'.llm_calls = 1
            /\ current_session' = current_session ]_vars

\* ask_llm raised for a non-empty bundle and chat answered with the error
C22_Witness ==
    /\ response.op = "chat"
    /\ response.llm_failed
    /\ retrieval.result # << >>
    /\ response.kind = "error"
    /\ current_session = [namespace |-> 1, path |-> 1, files_processed |-> 1]

\* the positions of the accepted hits that belong to a file name
HitsOf(chunks, name) ==
    {i \in 1..Len(chunks) : chunks[i].file_name = name}
\* the position of the first of them
FirstHitOf(chunks, name) ==
    CHOOSE i \in HitsOf(chunks, name) : \A j \in HitsOf(chunks, name) : i <= j

RECURSIVE SumOfCounts(_, _)
SumOfCounts(summary, n) ==
    IF n = 0 THEN 0 ELSE SumOfCounts(summary, n - 1) + summary[n].count

\* C23: the statistics chat builds over the accepted hits have one entry per
\* file name, in the order in which the names first occur among the ranked
\* hits, each with the language of the first hit of the file and the number
\* of its hits; the counts sum to the number of accepted hits and
\* files_involved is the number of distinct file names.
C23_FileSummaryByFirstSeenName ==
    (response.op = "chat" /\ response.kind = "answer") =>
        LET chunks == retrieval.result
            summary == file_summary(chunks, Len(chunks))
            names == {chunks[i].file_name : i \in 1..Len(chunks)}
        IN  /\ {summary[k].file_name : k \in 1..Len(summary)} = names
            /\ Len(summary) = Cardinality(names)
            /\ \A k \in 1..Len(summary) :
                  /\ summary[k].count = Cardinality(HitsOf(chunks, summary[k].file_name))
                  /\ summary[k].language =
                        chunks[FirstHitOf(chunks, summary[k].file_name)].language
            /\ \A k, l \in 1..Len(summary) :
                  k < l => FirstHitOf(chunks, summary[k].file_name)
                              < FirstHitOf(chunks, summary[l].file_name)
            /\ SumOfCounts(summary, Len(summary)) = Len(chunks)
            /\ response.chunks_found = Len(chunks)
            /\ response.files_involved = Cardinality(names)

\* three accepted hits: util.js first, then app.py twice with two languages
C23_Witness ==
    /\ response.op = "chat"
    /\ response.kind = "answer"
    /\ Len(retrieval.result) = 3
    /\ retrieval.result[1].file_name = "util.js"
    /\ retrieval.result[2].file_name = "app.py"
    /\ retrieval.result[3].file_name = "app.py"
    /\ retrieval.result[2].language # retrieval.result[3].language
    /\ response.files_involved = 2

(***************************************************************************)
(* Properties of ingests and resets that interleave (SessionSpec)          *)
(***************************************************************************)
\* C24, as stated: an upload-file request that started before a reset and
\* resumes after it leaves the new session alone, so that in every reachable
\* state files_processed > 0 implies that the root path is set, and the
\* namespace of a session without a root path holds no chunk.
C24_UploadAcrossResetLeavesNewSession ==
    /\ current_session.files_processed > 0 => current_session.path # NoPath
    /\ current_session.path = NoPath => index[current_session.namespace] = {}

\* C25, as stated: after a reset that deleted the directory of the recorded
\* root path, no working directory created by an ingest of the old session
\* is left on disk, also when that session had several ingests or a failed
\* one; stated for the first reset, before which every directory was
\* created by the old session.
C25_ResetRemovesEveryDirectory ==
    ( /\ response.op = "reset"
      /\ Len(index) = 2
      /\ response.before.path # NoPath
      /\ ~path_exists(disk, response.before.path) )
    => \A d \in 1..Len(disk) : ~disk[d].exists

====
